---- MODULE Spec2Model ----
(***************************************************************************)
(* Model of the calendar reconciliation of sports-sheet-to-calendar:       *)
(* calendar_sync.py's validate_event_times, fix_event_times,               *)
(* get_event_key, events_are_equal, get_existing_events and                *)
(* update_calendar, run against an in-memory calendar store, and its       *)
(* parse_date, extract_first_time and parse_sports_events, run over a      *)
(* sheet.                                                                  *)
(*                                                                         *)
(* Strings are modelled by their parts.  A date string 'YYYY-MM-DD' is a   *)
(* day number; a dateTime string 'YYYY-MM-DDTHH:00:00<off>' is a local     *)
(* hour index t (day = t \div 24, hour = t % 24) and its offset suffix     *)
(* off ("" for a naive timestamp).  Summaries and descriptions are         *)
(* sequences of tokens: a word, a blank " ", or a UTC-offset substring.    *)
(* Every event carries a summary, as every event the parsers build does.   *)
(*                                                                         *)
(* Spec is one pass of update_calendar over a calendar that may already    *)
(* hold events; SpecTwice adds a second pass over the same list; SpecPair   *)
(* is one pass over events that differ in one respect; SpecEq is a direct  *)
(* call of events_are_equal; SpecParse is parse_sports_events over a sheet *)
(* with a title row, a header row and data rows.                           *)
(***************************************************************************)
EXTENDS Integers, Sequences, FiniteSets, TLC

VARIABLES
    store,                  \* the calendar: id -> [ev, live]; ids are 1..Len(store)
    given,                  \* the list `events` as the caller built it
    newEvents,              \* the same list as it is now (fix_event_times rewrites events in place)
    list_calls,             \* events().list() requests of the current pass
    listed,                 \* the calendar as that request found it
    pc,                     \* position inside update_calendar
    existing_events_dict,   \* key -> [id, ev], the snapshot read at the start of the pass
    events_to_keep,         \* set of keys
    events_to_delete,       \* set of keys
    events_to_insert,       \* list of events
    events_to_change,       \* list of events
    pending_delete,         \* keys of events_to_delete the delete loop has not visited yet
    ins_i,                  \* index of the insert loop
    chg_i,                  \* index of the update loop
    log,                    \* store calls issued by the current pass, in order
    failures,               \* store calls that have failed so far
    result,                 \* the returned triple, <<>> before the return
    rerun,                  \* TRUE in the second pass over the same list
    event1, event2,         \* arguments of a direct events_are_equal call
    eq_result,              \* its result: "unset", "true", "false"
    sheet,                  \* the data given to parse_sports_events
    ppc,                    \* position inside parse_sports_events
    columns,                \* date_idx, event_idx, location_idx, time_idx
    row_i,                  \* index of the loop over the data rows
    sheet_events,           \* the list `events` parse_sports_events builds
    row_log,                \* what became of each data row visited so far
    time_arg,               \* argument of a direct extract_first_time call
    time_result,            \* <<its result>>, <<>> before the call
    event3,                 \* a third event, for three events_are_equal calls
    rel,                    \* the results of those calls, <<>> before them
    run,                    \* the multi-sheet run under way: "main", "apply_all_sheets"
    available_sheets,       \* the list of sheets of that run
    sheet_i,                \* index of its loop over the sheets
    sheet_results,          \* the per-sheet results in the order they were recorded
    rpc,                    \* position inside that run
    pages,                  \* the pages the store holds for a paged listing
    gpc,                    \* position inside get_existing_events
    page_token,             \* its local page_token
    events_result,          \* <<the response being read>>, <<>> before the first
    existing,               \* its local `events`: key -> event
    served,                 \* every event a response has carried so far
    asked,                  \* the pageToken of the latest request
    last_next,              \* the nextPageToken of the response before it
    changes                 \* <<what preview_changes reports>>, <<>> before it

vars == <<store, given, newEvents, list_calls, listed, pc, existing_events_dict, events_to_keep,
          events_to_delete, events_to_insert, events_to_change, pending_delete,
          ins_i, chg_i, log, failures, result, rerun,
          event1, event2, eq_result,
          sheet, ppc, columns, row_i, sheet_events, row_log,
          time_arg, time_result,
          event3, rel,
          run, available_sheets, sheet_i, sheet_results, rpc,
          pages, gpc, page_token, events_result, existing, served, asked, last_next,
          changes>>

(***************************************************************************)
(* Bounds                                                                  *)
(***************************************************************************)
MaxSeed == 2        \* events in the calendar before the first pass
MaxNew  == 2        \* length of the list given to update_calendar
MaxFail == 1        \* store calls that fail by a fault of the store
MaxPages == 2       \* pages of a listing of the calendar
MaxSheets == 2      \* sheets of a multi-sheet run

(***************************************************************************)
(* Strings                                                                 *)
(***************************************************************************)
\* the substrings matched by the regex [+-]\d{2}:\d{2}
OffsetTokens == {"+00:00", "-07:00", "-08:00"}

IsOffset(tok) == tok \in OffsetTokens

IsBlank(tok) == tok = " "

RECURSIVE LStrip(_)
LStrip(s) == IF s # <<>> /\ IsBlank(Head(s)) THEN LStrip(Tail(s)) ELSE s

RECURSIVE RStrip(_)
RStrip(s) ==
    IF s # <<>> /\ IsBlank(s[Len(s)]) THEN RStrip(SubSeq(s, 1, Len(s) - 1)) ELSE s

\* str.strip()
Strip(s) == RStrip(LStrip(s))

\* re.sub(r'[+-]\d{2}:\d{2}', '', s)
RemoveOffsets(s) == SelectSeq(s, LAMBDA tok : ~IsOffset(tok))

(***************************************************************************)
(* Time specifications and events                                          *)
(***************************************************************************)
Missing == [kind |-> "missing", t |-> 0, off |-> ""]

Date(d) == [kind |-> "date", t |-> d, off |-> ""]

DateTime(t, off) == [kind |-> "dateTime", t |-> t, off |-> off]

\* the string held under 'dateTime' or 'date', by its parts
TimeStr(ts) ==
    IF ts.kind = "dateTime" THEN <<ts.t \div 24, "T", ts.t % 24, ts.off>>
    ELSE <<ts.t>>

\* StripOffset without the substitution
KeepOffset(ts) == <<ts.t \div 24, "T", ts.t % 24, ts.off>>

\* re.sub(r'[+-]\d{2}:\d{2}$', '', ts['dateTime'])
StripOffset(ts) ==
    <<ts.t \div 24, "T", ts.t % 24, IF IsOffset(ts.off) THEN "" ELSE ts.off>>

\* ts['dateTime'].split('T')[0], or ts['date']
DatePortion(ts) == IF ts.kind = "dateTime" THEN ts.t \div 24 ELSE ts.t

\* hours east of UTC of an offset suffix; 'Z' is read as +00:00
OffsetHours(off) ==
    CASE off = "-07:00" -> -7
      [] off = "-08:00" -> -8
      [] OTHER -> 0

\* a datetime parsed from a string with an offset is aware, else naive
Aware(ts) == ts.off # ""

\* the instant datetime comparison uses
Instant(ts) == ts.t - OffsetHours(ts.off)

\* the offset datetime.isoformat() prints for a value parsed with offset off
IsoOffset(off) == IF off = "Z" THEN "+00:00" ELSE off

NoDescription == [tag |-> "missing", text |-> <<>>]

Description(text) == [tag |-> "str", text |-> text]

Event(summary, start, end, description) ==
    [summary |-> summary, start |-> start, end |-> end,
     description |-> description, location |-> <<"L">>]

NoEvent == Event(<<>>, Missing, Missing, NoDescription)


(***************************************************************************)
(* validate_event_times, fix_event_times, get_event_key, events_are_equal  *)
(***************************************************************************)
\* update_calendar's structural guards on an event: both start and end carry
\* 'dateTime' or 'date'
HasStartEnd(event) ==
    event.start.kind # "missing" /\ event.end.kind # "missing"

\* datetime's <= raises TypeError between a naive and an aware value
Comparable(a, b) == Aware(a) = Aware(b)

\* validate_event_times without the comparison of the two dates
validate_dates_unchecked(event) ==
    LET start == event.start
        end   == event.end
    IN  IF start.kind = "missing" \/ end.kind = "missing" THEN FALSE
        ELSE IF start.kind = "dateTime" /\ end.kind = "dateTime"
             THEN IF ~Comparable(start, end) THEN FALSE
                  ELSE ~(Instant(end) <= Instant(start))
        ELSE TRUE

\* the boolean of validate_event_times' result
validate_event_times(event) ==
    LET start == event.start
        end   == event.end
    IN  IF start.kind = "missing" \/ end.kind = "missing" THEN FALSE
        ELSE IF start.kind = "dateTime" /\ end.kind = "dateTime"
             THEN IF ~Comparable(start, end) THEN FALSE
                  ELSE ~(Instant(end) <= Instant(start))
        ELSE IF start.kind = "date" /\ end.kind = "date"
             THEN ~(end.t < start.t)
        ELSE TRUE

\* timedelta(hours=1)
FixHours == 1

\* fix_event_times without the swap: the end is always moved after the start
fix_always_extends(event) ==
    LET start == event.start
        end   == event.end
    IN  IF start.kind = "dateTime" /\ end.kind = "dateTime"
             /\ Comparable(start, end) /\ Instant(end) <= Instant(start)
        THEN [fixed |-> TRUE,
              event |-> [event EXCEPT
                  !.start = DateTime(start.t, IsoOffset(start.off)),
                  !.end   = DateTime(start.t + FixHours, IsoOffset(start.off))]]
        ELSE [fixed |-> FALSE, event |-> event]

\* fix_event_times: [fixed |-> its boolean, event |-> the event afterwards]
fix_event_times(event) ==
    LET start == event.start
        end   == event.end
    IN  IF start.kind = "dateTime" /\ end.kind = "dateTime"
             /\ Comparable(start, end) /\ Instant(end) <= Instant(start)
        THEN IF Instant(end) = Instant(start)
             THEN [fixed |-> TRUE,
                   event |-> [event EXCEPT
                       !.start = DateTime(start.t, IsoOffset(start.off)),
                       !.end   = DateTime(start.t + FixHours, IsoOffset(start.off))]]
             ELSE [fixed |-> TRUE,
                   event |-> [event EXCEPT
                       !.start = DateTime(end.t, IsoOffset(end.off)),
                       !.end   = DateTime(start.t, IsoOffset(start.off))]]
        ELSE [fixed |-> FALSE, event |-> event]

\* None
NoKey == <<>>

get_event_key(event) ==
    IF event.start.kind = "missing" THEN NoKey
    ELSE IF event.end.kind = "missing" THEN NoKey
    ELSE <<TimeStr(event.start), TimeStr(event.end), event.summary>>

\* TimesMatch with a date never matching a dateTime
TimesMatch_SameKind(a, b) ==
    IF a.kind = "dateTime" /\ b.kind = "dateTime"
    THEN StripOffset(a) = StripOffset(b)
    ELSE IF a.kind = "date" /\ b.kind = "date"
    THEN a.t = b.t
    ELSE FALSE

\* one of the two start/end comparisons of events_are_equal
TimesMatch(a, b) ==
    IF a.kind = "dateTime" /\ b.kind = "dateTime"
    THEN StripOffset(a) = StripOffset(b)
    ELSE IF a.kind = "date" /\ b.kind = "date"
    THEN a.t = b.t
    ELSE DatePortion(a) = DatePortion(b)

\* (event.get('description') or '').strip(), offsets removed, stripped again
CleanDescription(event) ==
    Strip(RemoveOffsets(Strip(event.description.text)))

\* events_are_equal with the second summary compared as it is
events_are_equal_one_strip(e1, e2) ==
    IF Strip(e1.summary) # e2.summary THEN FALSE
    ELSE IF ~TimesMatch(e1.start, e2.start) THEN FALSE
    ELSE IF ~TimesMatch(e1.end, e2.end) THEN FALSE
    ELSE CleanDescription(e1) = CleanDescription(e2)

events_are_equal(e1, e2) ==
    IF Strip(e1.summary) # Strip(e2.summary) THEN FALSE
    ELSE IF ~TimesMatch(e1.start, e2.start) THEN FALSE
    ELSE IF ~TimesMatch(e1.end, e2.end) THEN FALSE
    ELSE CleanDescription(e1) = CleanDescription(e2)

(***************************************************************************)
(* The calendar store and get_existing_events                              *)
(***************************************************************************)
LiveIds(s) == {i \in 1..Len(s) : s[i].live}

\* The dicts get_existing_events can return: one entry per key of a listed
\* event.  Of several events with one key the dict keeps the one listed last,
\* and the store lists in an unspecified order.
get_existing_events(s) ==
    LET keys == {get_event_key(s[i].ev) : i \in LiveIds(s)}
    IN  {f \in [keys -> LiveIds(s)] :
            \A k \in keys : get_event_key(s[f[k]].ev) = k}

\* update_calendar's existing_events_dict built from such a dict: events
\* without a usable start and end are left out
ExistingEventsDict(s, f) ==
    LET keys == {k \in DOMAIN f : HasStartEnd(s[f[k]].ev)}
    IN  [k \in keys |-> [id |-> f[k], ev |-> s[f[k]].ev]]

(***************************************************************************)
(* update_calendar, classification loop                                    *)
(***************************************************************************)
\* The guards and the validate / fix / re-validate steps applied to one
\* event: [skip |-> the loop continues without it, event |-> the event
\* afterwards (fix_event_times rewrites it in place)]
Prepare(event) ==
    IF ~HasStartEnd(event) THEN [skip |-> TRUE, event |-> event]
    ELSE IF validate_event_times(event) THEN [skip |-> FALSE, event |-> event]
    ELSE LET fx == fix_event_times(event)
         IN  IF fx.fixed
             THEN [skip |-> ~validate_event_times(fx.event), event |-> fx.event]
             ELSE [skip |-> TRUE, event |-> event]

\* Classify with an equal event queued for update like a changed one
Classify_NoKeep(event, dict) ==
    IF get_event_key(event) \in DOMAIN dict THEN "change" ELSE "insert"

\* the branch taken for an event that was not skipped
Classify(event, dict) ==
    LET event_key == get_event_key(event)
    IN  IF event_key \in DOMAIN dict
        THEN IF ~events_are_equal(event, dict[event_key].ev)
             THEN "change" ELSE "keep"
        ELSE "insert"

RECURSIVE ClassifyAll(_, _, _, _)
ClassifyAll(events, dict, i, acc) ==
    IF i > Len(events) THEN acc
    ELSE LET p  == Prepare(events[i])
             ev == p.event
             c  == IF p.skip THEN "skip" ELSE Classify(ev, dict)
         IN  ClassifyAll(events, dict, i + 1,
                [events |-> Append(acc.events, ev),
                 keep   |-> IF c = "keep" THEN acc.keep \cup {get_event_key(ev)}
                            ELSE acc.keep,
                 insert |-> IF c = "insert" THEN Append(acc.insert, ev)
                            ELSE acc.insert,
                 change |-> IF c = "change" THEN Append(acc.change, ev)
                            ELSE acc.change])

\* "Find events to delete"
EventsToDelete(dict, keep) == {k \in DOMAIN dict : k \notin keep}

(***************************************************************************)
(* Inputs                                                                  *)
(***************************************************************************)
\* the local hour index of hour h of a day
Hour(day, h) == 24 * day + h

\* 15:00 and 17:00 of day 1
T15 == Hour(1, 15)
T17 == Hour(1, 17)

\* events a caller hands to update_calendar
TimedA      == Event(<<"A">>, DateTime(T15, "-07:00"), DateTime(T17, "-07:00"),
                     Description(<<"old">>))
TimedA2     == Event(<<"A">>, DateTime(T15, "-07:00"), DateTime(T17, "-07:00"),
                     Description(<<"new">>))
AllDaySame  == Event(<<"B">>, Date(1), Date(1), NoDescription)
AllDayRev   == Event(<<"B">>, Date(2), Date(1), NoDescription)
TimedSame   == Event(<<"C">>, DateTime(T15, "Z"), DateTime(T15, "Z"),
                     NoDescription)
TimedRev    == Event(<<"C">>, DateTime(T17, "-07:00"), DateTime(T15, "-07:00"),
                     NoDescription)

NewPool == <<TimedA, TimedA2, AllDaySame, AllDayRev, TimedSame, TimedRev>>

\* events found in the calendar before the first pass
AllDayD     == Event(<<"D">>, Date(1), Date(2), Description(<<"old">>))
NoStart     == Event(<<"E">>, Missing, Date(2), NoDescription)

SeedPool == <<TimedA, TimedA2, AllDayD, NoStart>>

\* the timed event of test_event_key_generation under its two offsets, the
\* same event at another location, and its all-day form on the same day
TimedA_0800  == Event(<<"A">>, DateTime(T15, "-08:00"), DateTime(T17, "-08:00"),
                      Description(<<"old">>))
TimedA_Moved == [TimedA EXCEPT !.location = <<"M">>]
AllDayA      == Event(<<"A">>, Date(1), Date(2), Description(<<"old">>))

PairSeedPool == <<TimedA, AllDayA>>

PairNewPool == <<TimedA, TimedA2, TimedA_0800, TimedA_Moved, AllDayA>>

RECURSIVE Lists(_, _)
\* the lists of at most n elements of the pool
Lists(pool, n) ==
    IF n = 0 THEN {<<>>}
    ELSE LET shorter == Lists(pool, n - 1)
         IN  shorter \cup {Append(l, pool[i]) : l \in shorter, i \in 1..Len(pool)}

(***************************************************************************)
(* Sheet cells                                                             *)
(*                                                                         *)
(* A date cell is a sequence of tokens: a word, a blank, or a run of       *)
(* digits, '/' and '-' in one of the shapes the sheets use.  A header cell *)
(* is the set of column keywords its lower-cased text contains.  A time    *)
(* cell is its text and the first match of the time regex in it.  A row is *)
(* the number of cells it has and the cells under the four columns         *)
(* parse_sports_events reads.                                              *)
(***************************************************************************)
Tok(form, str, m, d, y, m2, d2, y2) ==
    [form |-> form, str |-> str, m |-> m, d |-> d, y |-> y,
     m2 |-> m2, d2 |-> d2, y2 |-> y2]

Word(str) == Tok("word", str, 0, 0, 0, 0, 0, 0)

Space == Word(" ")

\* 'M/D/YYYY'
MDY(m, d, y) == Tok("M/D/YYYY", "", m, d, y, 0, 0, 0)

\* 'M/D/YY'
MDYY(m, d, yy) == Tok("M/D/YY", "", m, d, yy, 0, 0, 0)

\* 'M/D'
MD(m, d) == Tok("M/D", "", m, d, 0, 0, 0, 0)

\* 'M/D-D/YYYY'
DayRange(m, d, d2, y) == Tok("M/D-D/YYYY", "", m, d, y, 0, d2, 0)

\* 'M/D-D'
DayRangeNoYear(m, d, d2) == Tok("M/D-D", "", m, d, 0, 0, d2, 0)

\* 'M/D-M/D'
MonthRange(m, d, m2, d2) == Tok("M/D-M/D", "", m, d, 0, m2, d2, 0)

\* 'M/D-M/D/YYYY'
MonthRangeYear(m, d, m2, d2, y2) == Tok("M/D-M/D/YYYY", "", m, d, 0, m2, d2, y2)

\* 'M/D/YYYY-M/D/YYYY'
FullRange(m, d, y, m2, d2, y2) == Tok("M/D/YYYY-M/D/YYYY", "", m, d, y, m2, d2, y2)

IsSpace(tok) == tok.form = "word" /\ tok.str = " "

RECURSIVE LStripCell(_)
LStripCell(s) == IF s # <<>> /\ IsSpace(Head(s)) THEN LStripCell(Tail(s)) ELSE s

RECURSIVE RStripCell(_)
RStripCell(s) ==
    IF s # <<>> /\ IsSpace(s[Len(s)]) THEN RStripCell(SubSeq(s, 1, Len(s) - 1))
    ELSE s

\* date_str.strip()
StripCell(s) == RStripCell(LStripCell(s))

\* str.lower() of a word
Lower(str) ==
    CASE str = "Week" -> "week"
      [] str = "Of"   -> "of"
      [] str = "OR"   -> "or"
      [] str = "AM"   -> "am"
      [] str = "PM"   -> "pm"
      [] OTHER        -> str

IsWord(tok, str) == tok.form = "word" /\ Lower(tok.str) = str

\* 'week of' in s.lower()
ContainsWeekOf(s) ==
    \E i \in 1..Len(s) - 2 :
        IsWord(s[i], "week") /\ IsSpace(s[i + 1]) /\ IsWord(s[i + 2], "of")

\* ' or ' in s.lower()
ContainsOr(s) ==
    \E i \in 1..Len(s) - 2 :
        IsSpace(s[i]) /\ IsWord(s[i + 1], "or") /\ IsSpace(s[i + 2])

(***************************************************************************)
(* Dates                                                                   *)
(***************************************************************************)
YMD(y, m, d) == [y |-> y, m |-> m, d |-> d]

\* None, where a date is expected
NoDate == YMD(0, 0, 0)

IsLeap(y) == y % 4 = 0 /\ (y % 100 # 0 \/ y % 400 = 0)

DaysInMonth(y, m) ==
    IF m = 2 THEN (IF IsLeap(y) THEN 29 ELSE 28)
    ELSE IF m \in {4, 6, 9, 11} THEN 30
    ELSE 31

\* datetime(year, month, day) raises ValueError unless this holds
ValidDate(y, m, d) ==
    /\ y \in 1..9999
    /\ m \in 1..12
    /\ d \in 1..DaysInMonth(y, m)

\* date + timedelta(days=1)
NextDay(date) ==
    IF date.d < DaysInMonth(date.y, date.m) THEN YMD(date.y, date.m, date.d + 1)
    ELSE IF date.m < 12 THEN YMD(date.y, date.m + 1, 1)
    ELSE YMD(date.y + 1, 1, 1)

RECURSIVE DaysBeforeMonth(_, _)
DaysBeforeMonth(y, m) ==
    IF m = 1 THEN 0 ELSE DaysBeforeMonth(y, m - 1) + DaysInMonth(y, m - 1)

DaysBeforeYear(y) ==
    (y - 1) * 365 + (y - 1) \div 4 - (y - 1) \div 100 + (y - 1) \div 400

\* the day number standing for the string date.strftime("%Y-%m-%d")
Ordinal(date) == DaysBeforeYear(date.y) + DaysBeforeMonth(date.y, date.m) + date.d

\* the year strptime's %y gives a two-digit year
Year2(yy) == IF yy < 69 THEN 2000 + yy ELSE 1900 + yy

(***************************************************************************)
(* parse_date, extract_first_time                                          *)
(***************************************************************************)
\* ValueError
DateError == [ok |-> FALSE, start |-> NoDate, end |-> NoDate]

DateResult(start, end) == [ok |-> TRUE, start |-> start, end |-> end]

\* datetime.strptime(date_str, "%m/%d/%Y") and, when that fails, "%m/%d/%y":
\* the whole string has to be one date
ParseSingle(s) ==
    IF Len(s) # 1 THEN DateError
    ELSE IF s[1].form = "M/D/YYYY" /\ ValidDate(s[1].y, s[1].m, s[1].d)
    THEN DateResult(YMD(s[1].y, s[1].m, s[1].d), NoDate)
    ELSE IF s[1].form = "M/D/YY" /\ ValidDate(Year2(s[1].y), s[1].m, s[1].d)
    THEN DateResult(YMD(Year2(s[1].y), s[1].m, s[1].d), NoDate)
    ELSE DateError

\* parse_date: the range regex is matched at the start of the stripped cell
\* and does not look at what follows it
parse_date(cell) ==
    LET s == StripCell(cell)
    IN  IF ContainsWeekOf(s) \/ ContainsOr(s) THEN DateError
        ELSE IF s # <<>> /\ Head(s).form = "M/D-D/YYYY"
        THEN LET t == Head(s)
             IN  IF ValidDate(t.y, t.m, t.d) /\ ValidDate(t.y, t.m, t.d2)
                 THEN DateResult(YMD(t.y, t.m, t.d), YMD(t.y, t.m, t.d2))
                 ELSE DateError
        ELSE ParseSingle(s)

\* a time cell: its text, whether the time regex finds a match in it, and the
\* hour, minute and AM/PM groups of the first match
TimeCell(text, found, hour, minute, ampm) ==
    [text |-> text, found |-> found, hour |-> hour, minute |-> minute,
     ampm |-> ampm]

NoTime == [ok |-> TRUE, none |-> TRUE, hour |-> 0, minute |-> 0]

\* datetime.time(hour, minute), which raises ValueError out of range
Time(hour, minute) ==
    [ok |-> hour \in 0..23 /\ minute \in 0..59, none |-> FALSE,
     hour |-> hour, minute |-> minute]

extract_first_time(time_str) ==
    IF time_str.text = "" THEN NoTime
    ELSE IF ~time_str.found THEN NoTime
    ELSE LET hour == time_str.hour
             ampm == Lower(time_str.ampm)
         IN  IF ampm = "pm" /\ hour < 12 THEN Time(hour + 12, time_str.minute)
             ELSE IF ampm = "am" /\ hour = 12 THEN Time(0, time_str.minute)
             ELSE IF ampm = "" /\ hour \in 1..11 THEN Time(hour + 12, time_str.minute)
             ELSE Time(hour, time_str.minute)

(***************************************************************************)
(* parse_sports_events                                                     *)
(***************************************************************************)
\* None, where a column index is expected; columns are counted from 1
NoCol == 0

Columns(date_idx, event_idx, location_idx, time_idx) ==
    [date_idx |-> date_idx, event_idx |-> event_idx,
     location_idx |-> location_idx, time_idx |-> time_idx]

\* the header row is the first row whose text holds one of these
HeaderKeywords == {"date", "event", "location", "time", "venue", "place"}

IsHeaderRow(headers) ==
    \E i \in 1..Len(headers) : headers[i] \cap HeaderKeywords # {}

RECURSIVE DetectColumns(_, _, _)
\* "More flexible column detection": the loop over the header cells
DetectColumns(headers, i, acc) ==
    IF i > Len(headers) THEN acc
    ELSE LET h == headers[i]
             next ==
                 IF "date" \in h THEN [acc EXCEPT !.date_idx = i]
                 ELSE IF h \cap {"event", "title", "name", "opponent"} # {}
                 THEN [acc EXCEPT !.event_idx = i]
                 ELSE IF h \cap {"location", "place", "venue"} # {}
                 THEN [acc EXCEPT !.location_idx = i]
                 ELSE IF "time" \in h
                 THEN IF "start" \in h THEN [acc EXCEPT !.time_idx = i]
                      ELSE IF acc.time_idx = NoCol THEN [acc EXCEPT !.time_idx = i]
                      ELSE acc
                 ELSE acc
         IN  DetectColumns(headers, i + 1, next)

ColumnsOf(headers) == DetectColumns(headers, 1, Columns(NoCol, NoCol, NoCol, NoCol))

RequiredColumnsFound(c) ==
    c.date_idx # NoCol /\ c.event_idx # NoCol /\ c.location_idx # NoCol

Max3(a, b, c) ==
    IF a >= b /\ a >= c THEN a ELSE IF b >= c THEN b ELSE c

Row(n, date, event, location, time) ==
    [n |-> n, date |-> date, event |-> event, location |-> location,
     time |-> time]

EmptyTime == TimeCell("", FALSE, 0, 0, "")

\* end_date_for_calendar with the day added a second time
end_date_added_twice(start_date, end_date) ==
    IF end_date # NoDate THEN NextDay(NextDay(end_date))
    ELSE NextDay(NextDay(start_date))

\* "Google Calendar end date is exclusive"
end_date_for_calendar(start_date, end_date) ==
    IF end_date # NoDate THEN NextDay(end_date) ELSE NextDay(start_date)

\* parse_date was not called for the row
NotParsed == [ok |-> FALSE, start |-> NoDate, end |-> NoDate]

RowResult(outcome, parsed, ev) == [outcome |-> outcome, parsed |-> parsed, ev |-> ev]

\* one iteration of the loop over the data rows
ParseRowOf(row, c, sport_name) ==
    LET required_max == Max3(c.date_idx, c.event_idx, c.location_idx)
        time_str == IF c.time_idx # NoCol /\ row.n >= c.time_idx
                    THEN row.time ELSE EmptyTime
    IN  IF row.n < required_max THEN RowResult("too short", NotParsed, NoEvent)
        ELSE IF row.date = <<>> \/ row.event = "" \/ row.location = ""
        THEN RowResult("missing data", NotParsed, NoEvent)
        ELSE LET parsed == parse_date(row.date)
                 parsed_time == extract_first_time(time_str)
             IN  IF ~parsed.ok THEN RowResult("date error", parsed, NoEvent)
                 ELSE IF ~parsed_time.ok THEN RowResult("time error", parsed, NoEvent)
                 ELSE LET end == end_date_for_calendar(parsed.start, parsed.end)
                          description ==
                              <<"Location: ", row.location>>
                              \o (IF parsed_time.none THEN <<>>
                                  ELSE <<"\n", "Time: ", time_str.text>>)
                          event_dict ==
                              [Event(<<sport_name, " - ", row.event, " at ",
                                       row.location>>,
                                     Date(Ordinal(parsed.start)),
                                     Date(Ordinal(end)),
                                     Description(description))
                               EXCEPT !.location = <<row.location>>]
                      IN  RowResult("event", parsed, event_dict)

(***************************************************************************)
(* Sheets                                                                  *)
(***************************************************************************)
MaxRows == 2        \* data rows of a sheet

\* the header rows of test_parse_sports_events and of TestDateRangeParsing,
\* one with two time columns, and one without a location column
HeaderGames   == <<{"date"}, {}, {"event"}, {"location"}, {"time"}>>
HeaderRanges  == <<{"date"}, {"time"}, {"opponent"}, {"location"}>>
HeaderTwoTime == <<{"date"}, {"time"}, {"start", "time"}, {"name"}, {"venue"}>>
HeaderNoPlace == <<{"date"}, {}, {"event"}, {"time"}>>

HeaderPool == {HeaderGames, HeaderRanges, HeaderTwoTime, HeaderNoPlace}

\* time cells: 'TBD', '3:30 PM', '4', '12 AM', '30 min before'
TimeTBD    == TimeCell("TBD", FALSE, 0, 0, "")
Time330PM  == TimeCell("3:30 PM", TRUE, 3, 30, "PM")
Time30     == TimeCell("30 min before", TRUE, 30, 0, "")

\* date cells
DateCells ==
    <<  <<MDY(2, 10, 2025)>>,
        <<Space, MDY(12, 31, 2025), Space>>,
        <<MDYY(2, 28, 24)>>,
        <<MDY(2, 30, 2025)>>,
        <<MD(2, 15)>>,
        <<DayRange(2, 15, 17, 2025)>>,
        <<DayRange(12, 30, 31, 2025)>>,
        <<DayRange(2, 17, 25, 2025)>>,
        <<DayRange(2, 15, 14, 2025)>>,
        <<DayRange(2, 15, 13, 2025)>>,
        <<DayRange(2, 27, 30, 2025)>>,
        <<DayRangeNoYear(2, 10, 14)>>,
        <<MonthRange(12, 31, 1, 2)>>,
        <<MonthRangeYear(7, 28, 8, 1, 2025)>>,
        <<FullRange(12, 28, 2024, 1, 5, 2025)>>,
        <<Word("Week"), Space, Word("Of"), Space, MDY(4, 28, 2025)>>,
        <<MD(5, 12), Space, Word("or"), Space, MDY(5, 13, 2025)>>,
        <<DayRange(2, 15, 17, 2025), Space, Word("or"), Space>>,
        <<Word("TBD")>>  >>

GoodDate == <<MDY(2, 10, 2025)>>

RECURSIVE RowsWithDates(_)
\* a full row for each of the first i date cells
RowsWithDates(i) ==
    IF i = 0 THEN <<>>
    ELSE Append(RowsWithDates(i - 1), Row(5, DateCells[i], "Team", "Home", TimeTBD))

\* rows with a date that parses: a time, a time cell with a number that is
\* no hour, no time cell, a short row, an empty cell
OtherRows ==
    <<  Row(5, GoodDate, "Team", "Away", Time330PM),
        Row(5, GoodDate, "Team", "Home", Time30),
        Row(4, GoodDate, "Team", "Home", EmptyTime),
        Row(2, GoodDate, "", "", EmptyTime),
        Row(5, GoodDate, "", "Home", TimeTBD),
        Row(5, <<>>, "Team", "Home", TimeTBD)  >>

RowPool == RowsWithDates(Len(DateCells)) \o OtherRows

Sheet(sport_name, headers, rows) ==
    [sport_name |-> sport_name, headers |-> headers, rows |-> rows]

NoSheet == Sheet("", <<>>, <<>>)

Sheets ==
    {Sheet("Golf", h, rows) : h \in HeaderPool, rows \in Lists(RowPool, MaxRows)}

(***************************************************************************)
(* Store calls                                                             *)
(***************************************************************************)
Call(op, id, body, ok) == [op |-> op, id |-> id, body |-> body, ok |-> ok]

\* the outcomes a store call can have
Outcomes == IF failures < MaxFail THEN {TRUE, FALSE} ELSE {TRUE}

Failed(ok) == IF ok THEN failures ELSE failures + 1

\* Caught without the except clause: the error leaves update_calendar
Uncaught(ok) == IF ok THEN "apply" ELSE "raised"

\* the except clause around each store call logs the error and lets the loop
\* go on: where update_calendar is after a call with outcome ok
Caught(ok) == "apply"

\* DeleteLoopOver for an insert loop that does not wait for the deletes
DeleteLoopIgnored == TRUE

\* the three apply loops run one after the other
DeleteLoopOver == pending_delete = {}

InsertLoopOver == ins_i > Len(events_to_insert)

UpdateLoopOver == chg_i > Len(events_to_change)

(***************************************************************************)
(* Initial state and actions                                               *)
(***************************************************************************)
eqVars == <<event1, event2, eq_result>>

parseVars == <<sheet, ppc, columns, row_i, sheet_events, row_log,
               time_arg, time_result>>

TimeIdle ==
    /\ time_arg = EmptyTime
    /\ time_result = <<>>

\* what the apply loops leave alone
planVars == <<given, newEvents, list_calls, listed, existing_events_dict,
              events_to_keep, events_to_delete, events_to_insert,
              events_to_change, result, rerun>>

EqIdle ==
    /\ event1 = NoEvent
    /\ event2 = NoEvent
    /\ eq_result = "unset"

PassIdle ==
    /\ store = <<>>
    /\ given = <<>>
    /\ newEvents = <<>>
    /\ list_calls = 0
    /\ listed = <<>>
    /\ pc = "setup"
    /\ existing_events_dict = <<>>
    /\ events_to_keep = {}
    /\ events_to_delete = {}
    /\ events_to_insert = <<>>
    /\ events_to_change = <<>>
    /\ pending_delete = {}
    /\ ins_i = 1
    /\ chg_i = 1
    /\ log = <<>>
    /\ failures = 0
    /\ result = <<>>
    /\ rerun = FALSE

ParseIdle ==
    /\ sheet = NoSheet
    /\ ppc = "idle"
    /\ columns = Columns(NoCol, NoCol, NoCol, NoCol)
    /\ row_i = 1
    /\ sheet_events = <<>>
    /\ row_log = <<>>
    /\ TimeIdle

\* None as a page token
NoToken == 0

relVars == <<event3, rel>>

runVars == <<run, available_sheets, sheet_i, sheet_results, rpc>>

pageVars == <<pages, gpc, page_token, events_result, existing, served, asked,
              last_next>>

\* what update_calendar, events_are_equal alone, parse_sports_events and
\* extract_first_time leave alone
moreVars == <<event3, rel,
              run, available_sheets, sheet_i, sheet_results, rpc,
              pages, gpc, page_token, events_result, existing, served, asked,
              last_next,
              changes>>

RelIdle ==
    /\ event3 = NoEvent
    /\ rel = <<>>

RunIdle ==
    /\ run = "idle"
    /\ available_sheets = <<>>
    /\ sheet_i = 1
    /\ sheet_results = <<>>
    /\ rpc = "idle"

PagesIdle ==
    /\ pages = <<>>
    /\ gpc = "idle"
    /\ page_token = NoToken
    /\ events_result = <<>>
    /\ existing = <<>>
    /\ served = {}
    /\ asked = NoToken
    /\ last_next = NoToken

PreviewIdle == changes = <<>>

MoreIdle == RelIdle /\ RunIdle /\ PagesIdle /\ PreviewIdle

Init == PassIdle /\ EqIdle /\ ParseIdle /\ MoreIdle

\* Somebody else puts an event into the calendar before the first pass.
\* Seeds arrive in pool order: the store's listing order is unspecified, so
\* the other orders add nothing.
Seed ==
    /\ pc = "setup"
    /\ Len(store) < MaxSeed
    /\ \E i \in 1..Len(SeedPool) :
          /\ \A j \in 1..Len(store) : \E k \in 1..i : store[j].ev = SeedPool[k]
          /\ store' = Append(store, [ev |-> SeedPool[i], live |-> TRUE])
    /\ UNCHANGED <<pc, pending_delete, ins_i, chg_i, log, failures>>
    /\ UNCHANGED planVars
    /\ UNCHANGED eqVars
    /\ UNCHANGED moreVars
    /\ UNCHANGED parseVars

\* update_calendar from its entry to "Apply changes": the snapshot, the
\* classification of every event, the delete set
Begin(events) ==
    \E f \in get_existing_events(store) :
        LET dict == ExistingEventsDict(store, f)
            c    == ClassifyAll(events, dict, 1,
                        [events |-> <<>>, keep |-> {}, insert |-> <<>>,
                         change |-> <<>>])
        IN  /\ given' = events
            /\ newEvents' = c.events
            /\ list_calls' = 1
            /\ listed' = store
            /\ existing_events_dict' = dict
            /\ events_to_keep' = c.keep
            /\ events_to_insert' = c.insert
            /\ events_to_change' = c.change
            /\ events_to_delete' = EventsToDelete(dict, c.keep)
            /\ pending_delete' = EventsToDelete(dict, c.keep)
            /\ ins_i' = 1
            /\ chg_i' = 1
            /\ log' = <<>>
            /\ result' = <<>>
            /\ pc' = "apply"
            /\ UNCHANGED <<store, failures>>

\* the first call of update_calendar
UpdateCalendar ==
    /\ pc = "setup"
    /\ \E events \in Lists(NewPool, MaxNew) : Begin(events)
    /\ UNCHANGED rerun
    /\ UNCHANGED eqVars
    /\ UNCHANGED moreVars
    /\ UNCHANGED parseVars

\* the next run over the same list of events
UpdateCalendarAgain ==
    /\ pc = "done"
    /\ ~rerun
    /\ Begin(newEvents)
    /\ rerun' = TRUE
    /\ UNCHANGED eqVars
    /\ UNCHANGED moreVars
    /\ UNCHANGED parseVars

\* get_existing_events raises, and update_calendar re-raises
ListFails ==
    /\ pc = "setup"
    /\ pc' = "raised"
    /\ list_calls' = 1
    /\ UNCHANGED <<store, given, newEvents, listed, existing_events_dict,
                   events_to_keep, events_to_delete, events_to_insert,
                   events_to_change, pending_delete, ins_i, chg_i, log,
                   failures, result, rerun>>
    /\ UNCHANGED eqVars
    /\ UNCHANGED moreVars
    /\ UNCHANGED parseVars

\* one iteration of "Delete events"; a set is iterated in no fixed order
DeleteStep ==
    /\ pc = "apply"
    /\ \E event_key \in pending_delete, ok \in Outcomes :
          LET id == existing_events_dict[event_key].id
          IN  /\ store' = IF ok THEN [store EXCEPT ![id].live = FALSE] ELSE store
              /\ log' = Append(log, Call("delete", id, NoEvent, ok))
              /\ failures' = Failed(ok)
              /\ pending_delete' = pending_delete \ {event_key}
              /\ pc' = Caught(ok)
    /\ UNCHANGED <<ins_i, chg_i>>
    /\ UNCHANGED planVars
    /\ UNCHANGED eqVars
    /\ UNCHANGED moreVars
    /\ UNCHANGED parseVars

\* one iteration of "Insert new events"
InsertStep ==
    /\ pc = "apply"
    /\ DeleteLoopOver
    /\ ~InsertLoopOver
    /\ LET p == Prepare(events_to_insert[ins_i])
       IN  IF p.skip
           THEN UNCHANGED <<store, log, failures, pc>>
           ELSE \E ok \in Outcomes :
                   /\ store' = IF ok
                               THEN Append(store, [ev |-> p.event, live |-> TRUE])
                               ELSE store
                   /\ log' = Append(log, Call("insert", 0, p.event, ok))
                   /\ failures' = Failed(ok)
                   /\ pc' = Caught(ok)
    /\ ins_i' = ins_i + 1
    /\ UNCHANGED <<pending_delete, chg_i>>
    /\ UNCHANGED planVars
    /\ UNCHANGED eqVars
    /\ UNCHANGED moreVars
    /\ UNCHANGED parseVars

\* one iteration of "Update changed events".  What the store answers to an
\* update of an id it has deleted is not fixed by its interface: the call
\* fails, or it restores the event with the new body.
UpdateStep ==
    /\ pc = "apply"
    /\ DeleteLoopOver
    /\ InsertLoopOver
    /\ ~UpdateLoopOver
    /\ LET event == events_to_change[chg_i]
           id    == existing_events_dict[get_event_key(event)].id
       IN  \E ok \in (IF store[id].live THEN Outcomes ELSE {TRUE, FALSE}) :
              /\ store' = IF ok
                          THEN [store EXCEPT ![id] = [ev |-> event, live |-> TRUE]]
                          ELSE store
              /\ log' = Append(log, Call("update", id, event, ok))
              /\ failures' = Failed(ok)
              /\ pc' = Caught(ok)
    /\ chg_i' = chg_i + 1
    /\ UNCHANGED <<pending_delete, ins_i>>
    /\ UNCHANGED planVars
    /\ UNCHANGED eqVars
    /\ UNCHANGED moreVars
    /\ UNCHANGED parseVars

\* "Return the counts for tracking"
Return ==
    /\ pc = "apply"
    /\ DeleteLoopOver
    /\ InsertLoopOver
    /\ UpdateLoopOver
    /\ result' = <<Cardinality(events_to_delete), Len(events_to_insert),
                   Len(events_to_change)>>
    /\ pc' = "done"
    /\ UNCHANGED <<store, given, newEvents, list_calls, listed,
                   existing_events_dict, events_to_keep, events_to_delete,
                   events_to_insert, events_to_change, pending_delete, ins_i,
                   chg_i, log, failures, rerun>>
    /\ UNCHANGED eqVars
    /\ UNCHANGED moreVars
    /\ UNCHANGED parseVars

Next ==
    \/ Seed
    \/ UpdateCalendar
    \/ ListFails
    \/ DeleteStep
    \/ InsertStep
    \/ UpdateStep
    \/ Return

Spec == Init /\ [][Next]_vars

\* the same, with a second run of update_calendar over the same list
NextTwice == Next \/ UpdateCalendarAgain

SpecTwice == Init /\ [][NextTwice]_vars

(***************************************************************************)
(* One pass over a calendar and a list whose events differ from one        *)
(* another in one respect: offset suffix, description, location, or the    *)
(* all-day / timed form                                                    *)
(***************************************************************************)
SeedPair ==
    /\ pc = "setup"
    /\ Len(store) < MaxSeed
    /\ \E i \in 1..Len(PairSeedPool) :
          /\ \A j \in 1..Len(store) : \E k \in 1..i : store[j].ev = PairSeedPool[k]
          /\ store' = Append(store, [ev |-> PairSeedPool[i], live |-> TRUE])
    /\ UNCHANGED <<pc, pending_delete, ins_i, chg_i, log, failures>>
    /\ UNCHANGED planVars
    /\ UNCHANGED eqVars
    /\ UNCHANGED moreVars
    /\ UNCHANGED parseVars

UpdateCalendarPair ==
    /\ pc = "setup"
    /\ \E events \in Lists(PairNewPool, MaxNew) : Begin(events)
    /\ UNCHANGED rerun
    /\ UNCHANGED eqVars
    /\ UNCHANGED moreVars
    /\ UNCHANGED parseVars

NextPair ==
    \/ SeedPair
    \/ UpdateCalendarPair
    \/ ListFails
    \/ DeleteStep
    \/ InsertStep
    \/ UpdateStep
    \/ Return

SpecPair == Init /\ [][NextPair]_vars

(***************************************************************************)
(* Direct calls of events_are_equal                                        *)
(***************************************************************************)
EqSummaries == {<<"A">>, <<" ", "A">>, <<"B">>}

EqTimes == {Date(1), DateTime(T15, ""), DateTime(T15, "-07:00"),
            DateTime(T15, "-08:00"), DateTime(T15, "Z"), DateTime(T17, "-07:00")}

EqDescriptions == {NoDescription, Description(<<>>), Description(<<"old">>),
                   Description(<<"old", "-07:00">>),
                   Description(<<"old", " ", "-07:00">>)}

EqEvents ==
    {Event(s, st, en, d) : s \in EqSummaries, st \in EqTimes,
                           en \in {DateTime(T17, "-07:00"), DateTime(T17, "-08:00"), Date(1)},
                           d \in EqDescriptions}

InitEq ==
    /\ PassIdle
    /\ ParseIdle
    /\ MoreIdle
    /\ event1 \in EqEvents
    /\ event2 \in EqEvents
    /\ eq_result = "unset"

Compare ==
    /\ eq_result = "unset"
    /\ eq_result' = IF events_are_equal(event1, event2) THEN "true" ELSE "false"
    /\ UNCHANGED <<event1, event2, store, pc, pending_delete, ins_i, chg_i,
                   log, failures>>
    /\ UNCHANGED planVars
    /\ UNCHANGED parseVars
    /\ UNCHANGED moreVars

NextEq == Compare

SpecEq == InitEq /\ [][NextEq]_vars

(***************************************************************************)
(* parse_sports_events over a sheet                                        *)
(***************************************************************************)
passVars == <<store, given, newEvents, list_calls, listed, pc,
              existing_events_dict, events_to_keep, events_to_delete,
              events_to_insert, events_to_change, pending_delete, ins_i, chg_i,
              log, failures, result, rerun>>

InitParse ==
    /\ PassIdle
    /\ EqIdle
    /\ MoreIdle
    /\ sheet \in Sheets
    /\ ppc = "start"
    /\ columns = Columns(NoCol, NoCol, NoCol, NoCol)
    /\ row_i = 1
    /\ sheet_events = <<>>
    /\ row_log = <<>>
    /\ TimeIdle

\* from the entry to the loop over the data rows: the header row and the
\* columns are found, or the function returns []
FindColumns ==
    /\ ppc = "start"
    /\ LET c == ColumnsOf(sheet.headers)
       IN  IF IsHeaderRow(sheet.headers) /\ RequiredColumnsFound(c)
           THEN columns' = c /\ ppc' = "rows"
           ELSE columns' = columns /\ ppc' = "returned"
    /\ UNCHANGED <<sheet, row_i, sheet_events, row_log>>
    /\ UNCHANGED passVars
    /\ UNCHANGED eqVars
    /\ UNCHANGED moreVars
    /\ UNCHANGED <<time_arg, time_result>>

\* one iteration of the loop over the data rows
ParseRow ==
    /\ ppc = "rows"
    /\ row_i <= Len(sheet.rows)
    /\ LET r == ParseRowOf(sheet.rows[row_i], columns, sheet.sport_name)
       IN  /\ row_log' = Append(row_log, r)
           /\ sheet_events' = IF r.outcome = "event"
                              THEN Append(sheet_events, r.ev)
                              ELSE sheet_events
    /\ row_i' = row_i + 1
    /\ UNCHANGED <<sheet, ppc, columns>>
    /\ UNCHANGED passVars
    /\ UNCHANGED eqVars
    /\ UNCHANGED moreVars
    /\ UNCHANGED <<time_arg, time_result>>

\* return events
ReturnEvents ==
    /\ ppc = "rows"
    /\ row_i > Len(sheet.rows)
    /\ ppc' = "returned"
    /\ UNCHANGED <<sheet, columns, row_i, sheet_events, row_log>>
    /\ UNCHANGED passVars
    /\ UNCHANGED eqVars
    /\ UNCHANGED moreVars
    /\ UNCHANGED <<time_arg, time_result>>

NextParse ==
    \/ FindColumns
    \/ ParseRow
    \/ ReturnEvents

SpecParse == InitParse /\ [][NextParse]_vars

(***************************************************************************)
(* Direct calls of extract_first_time                                      *)
(***************************************************************************)
\* the first number of a time cell, the two digits after its colon (0 when
\* there is no colon), and the AM/PM that follows
ClockHours == {0, 1, 4, 9, 11, 12, 13, 15, 23, 24, 30}

ClockMinutes == {0, 30, 75}

ClockMarks == {"", "AM", "PM", "am", "pm"}

TimeCells ==
    {EmptyTime, TimeTBD}
    \cup {TimeCell("h:m", TRUE, h, m, a) :
             h \in ClockHours, m \in ClockMinutes, a \in ClockMarks}

InitTime ==
    /\ PassIdle
    /\ EqIdle
    /\ MoreIdle
    /\ sheet = NoSheet
    /\ ppc = "idle"
    /\ columns = Columns(NoCol, NoCol, NoCol, NoCol)
    /\ row_i = 1
    /\ sheet_events = <<>>
    /\ row_log = <<>>
    /\ time_arg \in TimeCells
    /\ time_result = <<>>

ExtractFirstTime ==
    /\ time_result = <<>>
    /\ time_result' = <<extract_first_time(time_arg)>>
    /\ UNCHANGED <<time_arg, sheet, ppc, columns, row_i, sheet_events, row_log>>
    /\ UNCHANGED passVars
    /\ UNCHANGED eqVars
    /\ UNCHANGED moreVars

NextTime == ExtractFirstTime

SpecTime == InitTime /\ [][NextTime]_vars

(***************************************************************************)
(* events_are_equal over three events                                      *)
(***************************************************************************)
RelSummaries == {<<"A">>, <<" ", "A">>}

RelStarts == {Date(1), DateTime(T15, "-07:00"), DateTime(T15, "-08:00"),
              DateTime(T17, "-07:00")}

RelEnds == {Date(1), DateTime(T17, "-07:00")}

RelDescriptions == {NoDescription, Description(<<"old">>)}

RelEvents ==
    {Event(s, st, en, d) : s \in RelSummaries, st \in RelStarts,
                           en \in RelEnds, d \in RelDescriptions}

InitRel ==
    /\ PassIdle
    /\ ParseIdle
    /\ RunIdle
    /\ PagesIdle
    /\ PreviewIdle
    /\ event1 \in RelEvents
    /\ event2 \in RelEvents
    /\ event3 \in RelEvents
    /\ eq_result = "unset"
    /\ rel = <<>>

\* events_are_equal called on event1 with itself, on event1 and event2 both
\* ways round, on event2 and event3, and on event1 and event3
CompareThree ==
    /\ rel = <<>>
    /\ rel' = <<[aa |-> events_are_equal(event1, event1),
                 ab |-> events_are_equal(event1, event2),
                 ba |-> events_are_equal(event2, event1),
                 bc |-> events_are_equal(event2, event3),
                 ac |-> events_are_equal(event1, event3)]>>
    /\ UNCHANGED event3
    /\ UNCHANGED eqVars
    /\ UNCHANGED passVars
    /\ UNCHANGED parseVars
    /\ UNCHANGED runVars
    /\ UNCHANGED pageVars
    /\ UNCHANGED changes

NextRel == CompareThree

SpecRel == InitRel /\ [][NextRel]_vars

(***************************************************************************)
(* get_existing_events over a paged listing                                *)
(***************************************************************************)
\* the 'items' a response can carry
PageItems == {<<>>, <<TimedA>>, <<TimedA2>>, <<AllDayD, TimedA>>, <<NoStart>>}

Page(items, token) == [items |-> items, nextPageToken |-> token]

\* the listings of exactly n pages.  The nextPageToken of page i names the
\* page the store answers with when it is given that token; a store may
\* hand out tokens for ever.
RECURSIVE ListingsOf(_, _)
ListingsOf(n, last) ==
    IF n = 0 THEN {<<>>}
    ELSE {Append(l, Page(items, token)) :
             l \in ListingsOf(n - 1, last), items \in PageItems,
             token \in {NoToken} \cup 1..last}

Listings == UNION {ListingsOf(n, n) : n \in 1..MaxPages}

\* the response to events().list(pageToken=token)
Response(token) == IF token = NoToken THEN pages[1] ELSE pages[token]

\* NextPageToken for a loop that reads the first page only
NextPageToken_Dropped(response) == NoToken

\* events_result.get('nextPageToken')
NextPageToken(response) == response.nextPageToken

RECURSIVE IndexByKey(_, _, _)
\* for event in items: events[get_event_key(event)] = event
IndexByKey(events, items, i) ==
    IF i > Len(items) THEN events
    ELSE LET key == get_event_key(items[i])
         IN  IndexByKey([k \in DOMAIN events \cup {key} |->
                            IF k = key THEN items[i] ELSE events[k]],
                        items, i + 1)

InitPages ==
    /\ PassIdle
    /\ EqIdle
    /\ ParseIdle
    /\ RelIdle
    /\ RunIdle
    /\ PreviewIdle
    /\ pages \in Listings
    /\ gpc = "request"
    /\ page_token = NoToken
    /\ events_result = <<>>
    /\ existing = <<>>
    /\ served = {}
    /\ asked = NoToken
    /\ last_next = NoToken

otherThanPages == <<passVars, eqVars, parseVars, relVars, runVars, changes>>

\* events().list(pageToken=page_token).execute() answers
ListPage ==
    /\ gpc = "request"
    /\ events_result' = <<Response(page_token)>>
    /\ asked' = page_token
    /\ served' = served \cup {Response(page_token).items[i] :
                                 i \in 1..Len(Response(page_token).items)}
    /\ gpc' = "merge"
    /\ UNCHANGED <<pages, page_token, existing, last_next>>
    /\ UNCHANGED otherThanPages

\* it raises: the except clause logs the error and raises it again
ListPageFails ==
    /\ gpc = "request"
    /\ asked' = page_token
    /\ gpc' = "raised"
    /\ UNCHANGED <<pages, page_token, events_result, existing, served, last_next>>
    /\ UNCHANGED otherThanPages

\* the rest of the loop body: the items are indexed, the token is taken,
\* and the loop goes on or the function returns events
TakePage ==
    /\ gpc = "merge"
    /\ existing' = IndexByKey(existing, events_result[1].items, 1)
    /\ page_token' = NextPageToken(events_result[1])
    /\ last_next' = events_result[1].nextPageToken
    /\ gpc' = IF NextPageToken(events_result[1]) = NoToken
              THEN "returned" ELSE "request"
    /\ UNCHANGED <<pages, events_result, served, asked>>
    /\ UNCHANGED otherThanPages

NextPages ==
    \/ ListPage
    \/ ListPageFails
    \/ TakePage

\* the function keeps running, and every request is answered
SpecPages ==
    /\ InitPages
    /\ [][NextPages]_vars
    /\ WF_vars(ListPage \/ ListPageFails)
    /\ WF_vars(TakePage)

(***************************************************************************)
(* Multi-sheet runs: automated_sync.main and app.apply_all_sheets          *)
(***************************************************************************)
\* One sheet of the spreadsheet, by what each stage meets: what the fetch of
\* its values does, its header row, the events its data rows yield, the
\* events its calendar holds, and what the calendar store does
RunSheet(values, headers, events, calendar, store_does) ==
    [values |-> values, headers |-> headers, events |-> events,
     calendar |-> calendar, store_does |-> store_does]

\* the sheets of a run
RunSheetPool ==
    <<RunSheet("raises", <<>>, <<>>, <<>>, "answers"),
      RunSheet("none", <<>>, <<>>, <<>>, "answers"),
      RunSheet("rows", HeaderNoPlace, <<AllDayD>>, <<>>, "answers"),
      RunSheet("rows", HeaderGames, <<>>, <<>>, "answers"),
      RunSheet("rows", HeaderGames, <<AllDayD>>, <<>>, "calendarList raises"),
      RunSheet("rows", HeaderGames, <<AllDayD>>, <<>>, "events.list raises"),
      RunSheet("rows", HeaderGames, <<AllDayD>>, <<>>, "answers"),
      RunSheet("rows", HeaderGames, <<AllDayD, AllDaySame>>, <<>>, "answers"),
      RunSheet("rows", HeaderGames, <<AllDayD>>,
               <<[ev |-> AllDaySame, live |-> TRUE]>>, "answers"),
      RunSheet("rows", HeaderGames, <<AllDayD, AllDaySame>>,
               <<[ev |-> AllDaySame, live |-> TRUE]>>, "answers")>>

\* parse_sports_events on the sheet's values: [] when the header row or a
\* required column is not found
ParsedEvents(sh) ==
    IF IsHeaderRow(sh.headers) /\ RequiredColumnsFound(ColumnsOf(sh.headers))
    THEN sh.events
    ELSE <<>>

NoDetails == [inserted |-> <<>>, updated |-> <<>>, deleted |-> {}]

\* the dict a per-sheet step records
SheetResult(success, error, created, updated, deleted, total, details) ==
    [success |-> success, error |-> error, events_created |-> created,
     events_updated |-> updated, events_deleted |-> deleted,
     total_events |-> total, details |-> details]

FailedResult(error) == SheetResult(FALSE, error, 0, 0, 0, 0, NoDetails)

\* 'No events found in sheet'
EmptyResult == SheetResult(TRUE, "", 0, 0, 0, 0, NoDetails)

\* the parameters of update_calendar
UpdateCalendarParams == {"service", "events", "calendar_id"}

\* the number of values update_calendar returns
ReturnedValues == 3

\* what update_calendar queues for a list of events over a calendar read as
\* the dict f
Plan(events, s, f) ==
    LET dict == ExistingEventsDict(s, f)
        c    == ClassifyAll(events, dict, 1,
                    [events |-> <<>>, keep |-> {}, insert |-> <<>>,
                     change |-> <<>>])
    IN  [inserted |-> c.insert,
         updated  |-> c.change,
         deleted  |-> {dict[k].ev : k \in EventsToDelete(dict, c.keep)}]

\* a call of update_calendar with the arguments args, unpacked into n names:
\* TypeError for an argument the function does not have, the error of the
\* snapshot raised again, ValueError when the values returned are not n.
\* The store calls the function makes are those of Spec; here it is what
\* the caller gets back.
CallUpdateCalendar(args, n, sh, f) ==
    IF ~(args \subseteq UpdateCalendarParams)
    THEN [raised |-> TRUE, error |-> "TypeError", plan |-> NoDetails]
    ELSE IF sh.store_does = "events.list raises"
    THEN [raised |-> TRUE, error |-> "HttpError", plan |-> NoDetails]
    ELSE IF n # ReturnedValues
    THEN [raised |-> TRUE, error |-> "ValueError", plan |-> NoDetails]
    ELSE [raised |-> FALSE, error |-> "",
          plan |-> Plan(ParsedEvents(sh), sh.calendar, f)]

\* the result of a per-sheet step up to the call of update_calendar, which
\* it makes with the arguments args and unpacks into n names
ProcessSheet(sh, args, n, f) ==
    IF sh.values = "raises" THEN FailedResult("HttpError")
    ELSE IF sh.values = "none" THEN FailedResult("No data found in sheet")
    ELSE IF ParsedEvents(sh) = <<>> THEN EmptyResult
    ELSE IF sh.store_does = "calendarList raises" THEN FailedResult("HttpError")
    ELSE LET r == CallUpdateCalendar(args, n, sh, f)
         IN  IF r.raised THEN FailedResult(r.error)
             ELSE SheetResult(TRUE, "", Len(r.plan.inserted),
                              Len(r.plan.updated), Cardinality(r.plan.deleted),
                              Len(ParsedEvents(sh)), r.plan)

\* sync_single_sheet: update_calendar(service, events, calendar_id,
\* return_detailed_changes=True), unpacked into four names
sync_single_sheet(sh, f) ==
    ProcessSheet(sh, UpdateCalendarParams \cup {"return_detailed_changes"},
                 ReturnedValues + 1, f)

\* the body of apply_all_sheets' loop, with the traditional parser:
\* update_calendar(service, events, calendar_id), unpacked into three names;
\* its results carry no details
apply_one_sheet(sh, f) ==
    [ProcessSheet(sh, UpdateCalendarParams, ReturnedValues, f)
        EXCEPT !.details = NoDetails]

InitRun ==
    /\ PassIdle
    /\ EqIdle
    /\ ParseIdle
    /\ RelIdle
    /\ PagesIdle
    /\ PreviewIdle
    /\ run \in {"main", "apply_all_sheets"}
    /\ available_sheets \in
          {l \in Lists(RunSheetPool, MaxSheets) :
              run = "apply_all_sheets" => l # <<>>}
    /\ sheet_i = 1
    /\ sheet_results = <<>>
    /\ rpc = "loop"

otherThanRun == <<passVars, eqVars, parseVars, relVars, pageVars, changes>>

\* one iteration of main's loop: sync_single_sheet, then
\* reporter.add_sheet_result
SyncSheet ==
    /\ run = "main"
    /\ rpc = "loop"
    /\ sheet_i <= Len(available_sheets)
    /\ \E f \in get_existing_events(available_sheets[sheet_i].calendar) :
          sheet_results' =
              Append(sheet_results,
                     [sheet |-> sheet_i,
                      result |-> sync_single_sheet(available_sheets[sheet_i], f)])
    /\ sheet_i' = sheet_i + 1
    /\ UNCHANGED <<run, available_sheets, rpc>>
    /\ UNCHANGED otherThanRun

\* one iteration of apply_all_sheets' loop
ApplySheet ==
    /\ run = "apply_all_sheets"
    /\ rpc = "loop"
    /\ sheet_i <= Len(available_sheets)
    /\ \E f \in get_existing_events(available_sheets[sheet_i].calendar) :
          sheet_results' =
              Append(sheet_results,
                     [sheet |-> sheet_i,
                      result |-> apply_one_sheet(available_sheets[sheet_i], f)])
    /\ sheet_i' = sheet_i + 1
    /\ UNCHANGED <<run, available_sheets, rpc>>
    /\ UNCHANGED otherThanRun

\* after the loop: the summary is made from the results
Summarise ==
    /\ rpc = "loop"
    /\ sheet_i > Len(available_sheets)
    /\ rpc' = "done"
    /\ UNCHANGED <<run, available_sheets, sheet_i, sheet_results>>
    /\ UNCHANGED otherThanRun

NextRun ==
    \/ SyncSheet
    \/ ApplySheet
    \/ Summarise

SpecRun == InitRun /\ [][NextRun]_vars

(***************************************************************************)
(* preview_changes, then update_calendar over the same events and calendar *)
(***************************************************************************)
\* list(existing_events.values()) for the dict f read from the calendar s
ExistingList(s, f) == {[id |-> f[k], ev |-> s[f[k]].ev] : k \in DOMAIN f}

\* "Find events to add or update"
ToAdd(events, existing_events) ==
    SelectSeq(events,
              LAMBDA event : ~\E existing_event \in existing_events :
                                 events_are_equal(event, existing_event.ev))

\* "Find events to delete"
ToDelete(events, existing_events) ==
    {existing_event \in existing_events :
        ~\E i \in 1..Len(events) : events_are_equal(events[i], existing_event.ev)}

\* the calendar is filled before the preview reads it
SeedPreview ==
    /\ changes = <<>>
    /\ Seed

\* preview_changes from "Get existing events" to its response, for the
\* events the parser gave it
PreviewChanges ==
    /\ pc = "setup"
    /\ changes = <<>>
    /\ \E events \in Lists(NewPool, MaxNew), f \in get_existing_events(store) :
          /\ given' = events
          /\ changes' = <<[to_add    |-> ToAdd(events, ExistingList(store, f)),
                           to_delete |-> ToDelete(events, ExistingList(store, f))]>>
    /\ UNCHANGED <<store, newEvents, list_calls, listed, pc,
                   existing_events_dict, events_to_keep, events_to_delete,
                   events_to_insert, events_to_change, pending_delete, ins_i,
                   chg_i, log, failures, result, rerun>>
    /\ UNCHANGED eqVars
    /\ UNCHANGED parseVars
    /\ UNCHANGED relVars
    /\ UNCHANGED runVars
    /\ UNCHANGED pageVars

\* update_calendar called with the events that were previewed
UpdateCalendarPreviewed ==
    /\ pc = "setup"
    /\ changes # <<>>
    /\ Begin(given)
    /\ UNCHANGED rerun
    /\ UNCHANGED eqVars
    /\ UNCHANGED parseVars
    /\ UNCHANGED moreVars

NextPreview ==
    \/ SeedPreview
    \/ PreviewChanges
    \/ UpdateCalendarPreviewed
    \/ DeleteStep
    \/ InsertStep
    \/ UpdateStep
    \/ Return

SpecPreview == Init /\ [][NextPreview]_vars

(***************************************************************************)
(* Properties                                                              *)
(***************************************************************************)
Finished == pc = "done"

\* positions of the log holding a call of one kind
CallsOf(op) == {i \in 1..Len(log) : log[i].op = op}

DeleteCallsFor(id) == {i \in CallsOf("delete") : log[i].id = id}

UpdateCallsFor(id, body) ==
    {i \in CallsOf("update") : log[i].id = id /\ log[i].body = body}

InsertCallsFor(body) == {i \in CallsOf("insert") : log[i].body = body}

\* positions of the list whose event passed the guards and the validation
Validated == {i \in 1..Len(newEvents) : ~Prepare(newEvents[i]).skip}

LiveEvents == {store[i].ev : i \in LiveIds(store)}

\* the events the pass found in the calendar
FoundEvents == {existing_events_dict[k].ev : k \in DOMAIN existing_events_dict}

\* C1: a second run of update_calendar over the same list returns (0, 0, 0)
\* and issues no store call (stated for the runs in which no store call of
\* either run failed).
C1_SecondRunChangesNothing ==
    (Finished /\ rerun /\ failures = 0)
        => (result = <<0, 0, 0>> /\ log = <<>>)

\* C2: after a pass in which no store call failed, every validated new event
\* has an event with its key in the calendar, and every calendar event with a
\* usable start and end has the key of some new event.
C2_CalendarMatchesList ==
    (Finished /\ failures = 0)
        => /\ \A i \in Validated :
                 \E ev \in LiveEvents :
                    get_event_key(ev) = get_event_key(newEvents[i])
           /\ \A ev \in LiveEvents :
                 HasStartEnd(ev) =>
                    \E i \in 1..Len(newEvents) :
                       get_event_key(newEvents[i]) = get_event_key(ev)

\* C3: for a new event with the key of a calendar event it is not equal to,
\* the pass issues exactly one update carrying the calendar event's id and the
\* new event, and no delete of that id and no insert of that event.
C3_ChangedEventOnlyUpdated ==
    Finished =>
        \A i \in Validated :
            LET event == newEvents[i]
                key   == get_event_key(event)
            IN  (key \in DOMAIN existing_events_dict
                 /\ ~events_are_equal(event, existing_events_dict[key].ev))
                => /\ Cardinality(UpdateCallsFor(existing_events_dict[key].id, event)) = 1
                   /\ DeleteCallsFor(existing_events_dict[key].id) = {}
                   /\ InsertCallsFor(event) = {}

\* the keys of the calendar's events when the pass listed them
ListedKeys == {get_event_key(listed[id].ev) : id \in LiveIds(listed)}

\* a validated new event was kept, or a call carrying it was issued
Synced(event) ==
    \/ get_event_key(event) \in events_to_keep
    \/ InsertCallsFor(event) # {}
    \/ \E i \in CallsOf("update") : log[i].body = event

\* positions of validated new events whose key the calendar did not hold
AbsentValidated == {i \in Validated : get_event_key(newEvents[i]) \notin ListedKeys}

\* positions of the list as given whose key the calendar did not hold
AbsentGiven ==
    {i \in 1..Len(given) : get_event_key(given[i]) \notin ListedKeys}

InsertScenario ==
    /\ Finished
    /\ \A id \in LiveIds(listed) :
          /\ HasStartEnd(listed[id].ev)
          /\ \E i \in Validated :
                get_event_key(newEvents[i]) = get_event_key(listed[id].ev)
    /\ \A i \in Validated : \A id \in LiveIds(listed) :
          get_event_key(newEvents[i]) = get_event_key(listed[id].ev)
             => events_are_equal(newEvents[i], listed[id].ev)

C5_StaleEventsDeleted ==
    Finished =>
        \A id \in LiveIds(listed) :
            LET ev == listed[id].ev
            IN  (HasStartEnd(ev)
                 /\ \A i \in 1..Len(given) :
                       get_event_key(given[i]) # get_event_key(ev))
                => /\ Cardinality(DeleteCallsFor(id)) = 1
                   /\ \A c \in CallsOf("update") : log[c].id # id
                   /\ \A c \in CallsOf("insert") :
                         get_event_key(log[c].body) # get_event_key(ev)

\* the rank of a call in the order delete, insert, update
Rank(op) == CASE op = "delete" -> 1 [] op = "insert" -> 2 [] OTHER -> 3

\* C6: in a pass every delete call comes before every insert call and every
\* insert call before every update call, and the calendar is listed once,
\* before the first of them.
C6_DeletesInsertsUpdates ==
    /\ \A i, j \in 1..Len(log) : i < j => Rank(log[i].op) <= Rank(log[j].op)
    /\ log # <<>> => list_calls = 1
    /\ pc \in {"apply", "done"} => list_calls = 1

\* a finished pass that issued calls of all three kinds
C6_Witness ==
    /\ Finished
    /\ CallsOf("delete") # {}
    /\ CallsOf("insert") # {}
    /\ CallsOf("update") # {}

\* C7: a store call that fails does not end the pass: update_calendar raises
\* only when listing fails, and a finished pass has issued a delete for every
\* key queued for deletion, an insert for every queued insert and an update
\* for every queued change, and returned its counts.
C7_StoreErrorIsolated ==
    /\ failures > 0 => pc \in {"apply", "done"}
    /\ pc = "raised" => log = <<>>
    /\ Finished =>
          /\ \A k \in events_to_delete :
                DeleteCallsFor(existing_events_dict[k].id) # {}
          /\ Cardinality(CallsOf("insert")) = Len(events_to_insert)
          /\ Cardinality(CallsOf("update")) = Len(events_to_change)
          /\ result = <<Cardinality(events_to_delete), Len(events_to_insert),
                        Len(events_to_change)>>

\* a finished pass in which a call failed and a later call was still issued
C7_Witness ==
    /\ Finished
    /\ \E i, j \in 1..Len(log) : i < j /\ ~log[i].ok

EndAfterStart(event) ==
    IF event.start.kind = "dateTime" /\ event.end.kind = "dateTime"
    THEN Comparable(event.start, event.end)
         /\ Instant(event.end) > Instant(event.start)
    ELSE event.end.t > event.start.t

\* C8 as claimed: every body passed to insert or update has its end after its
\* start, all-day and timed alike.
C8_EndAfterStartAtStore ==
    \A c \in CallsOf("insert") \cup CallsOf("update") : EndAfterStart(log[c].body)

\* C8 amended: every body passed to insert or update has its end after its
\* start when it is timed, and its end date not before its start date when it
\* is all-day; an event that is invalid after the fix attempt gets no call,
\* and every other event of the list is kept or gets its call.
C8_ValidatedRangeAtStore ==
    /\ \A c \in CallsOf("insert") \cup CallsOf("update") :
          LET body == log[c].body
          IN  /\ (body.start.kind = "dateTime" /\ body.end.kind = "dateTime")
                    => EndAfterStart(body)
              /\ (body.start.kind = "date" /\ body.end.kind = "date")
                    => body.end.t >= body.start.t
    /\ Finished =>
          \A i \in 1..Len(newEvents) :
             IF i \in Validated
             THEN Synced(newEvents[i])
             ELSE \A c \in CallsOf("insert") \cup CallsOf("update") :
                     log[c].body # newEvents[i]

\* a finished pass that skipped an invalid event and inserted a later one
C8_Witness ==
    /\ Finished
    /\ \E i, j \in 1..Len(newEvents) :
          /\ i < j
          /\ i \notin Validated
          /\ j \in Validated
          /\ \E c \in InsertCallsFor(newEvents[j]) : log[c].ok

EndNotAfterStart(event) ==
    IF event.start.kind = "dateTime" /\ event.end.kind = "dateTime"
    THEN Comparable(event.start, event.end)
         /\ Instant(event.end) <= Instant(event.start)
    ELSE event.end.t <= event.start.t

\* C9 as claimed: every event whose end is not after its start is fixed, then
\* passes validate_event_times with its end after its start, and is synced.
C9_EveryBadRangeFixed ==
    Finished =>
        \A i \in 1..Len(given) :
            EndNotAfterStart(given[i])
                => /\ i \in Validated
                   /\ EndAfterStart(newEvents[i])
                   /\ Synced(newEvents[i])

BothTimed(event) ==
    /\ event.start.kind = "dateTime"
    /\ event.end.kind = "dateTime"
    /\ Comparable(event.start, event.end)

\* C9 amended: every timed event whose end is not after its start is fixed
\* once (end equal to start: the end becomes the start plus one hour; end
\* before start: the two are swapped), then has its end after its start and
\* is synced like any other event; an all-day event whose end is before its
\* start is left as it is and skipped.
C9_TimedBadRangeFixed ==
    Finished =>
        \A i \in 1..Len(given) :
            LET g == given[i]
                n == newEvents[i]
            IN  /\ (BothTimed(g) /\ Instant(g.end) = Instant(g.start))
                      => /\ Instant(n.start) = Instant(g.start)
                         /\ Instant(n.end) = Instant(g.start) + 1
                /\ (BothTimed(g) /\ Instant(g.end) < Instant(g.start))
                      => /\ Instant(n.start) = Instant(g.end)
                         /\ Instant(n.end) = Instant(g.start)
                /\ (BothTimed(g) /\ EndNotAfterStart(g))
                      => /\ EndAfterStart(n)
                         /\ i \in Validated
                         /\ Synced(n)
                /\ (g.start.kind = "date" /\ g.end.kind = "date"
                    /\ g.end.t < g.start.t)
                      => /\ n = g
                         /\ i \notin Validated
                         /\ InsertCallsFor(g) = {}

\* a finished pass that extended one event, swapped another and inserted both
C9_Witness ==
    /\ Finished
    /\ \E i, j \in 1..Len(given) :
          /\ BothTimed(given[i]) /\ Instant(given[i].end) = Instant(given[i].start)
          /\ BothTimed(given[j]) /\ Instant(given[j].end) < Instant(given[j].start)
          /\ InsertCallsFor(newEvents[i]) # {}
          /\ InsertCallsFor(newEvents[j]) # {}

\* the two are timed and alike but for the [+-]HH:MM suffix of start and end
DifferInOffsetOnly(a, b) ==
    /\ a.summary = b.summary
    /\ a.description = b.description
    /\ \A p \in {<<a.start, b.start>>, <<a.end, b.end>>} :
          /\ p[1].kind = "dateTime"
          /\ p[2].kind = "dateTime"
          /\ p[1].t = p[2].t
          /\ IsOffset(p[1].off)
          /\ IsOffset(p[2].off)

\* C10: events_are_equal reports two timed events equal when they have the
\* same summary and description and their start and end differ only in the
\* trailing [+-]HH:MM offset.
C10_OffsetIgnored ==
    (eq_result # "unset" /\ DifferInOffsetOnly(event1, event2))
        => eq_result = "true"

\* a comparison of two such events with different offsets
C10_Witness ==
    /\ eq_result = "true"
    /\ DifferInOffsetOnly(event1, event2)
    /\ event1.start.off # event2.start.off
    /\ event1.end.off # event2.end.off

\* the calendar held one event and the list one event when the pass began
OneAndOne == Len(given) = 1 /\ Len(listed) = 1 /\ LiveIds(listed) = {1}

\* C11: two timed events that differ only in the offset suffix of start and
\* end have the same key, and a pass whose one new event differs from the one
\* calendar event only in that suffix issues no store call and returns
\* (0, 0, 0).
C11_OffsetOnlyNoDiff ==
    (/\ Finished
     /\ OneAndOne
     /\ DifferInOffsetOnly(given[1], listed[1].ev)
     /\ given[1].location = listed[1].ev.location)
        => /\ get_event_key(given[1]) = get_event_key(listed[1].ev)
           /\ log = <<>>
           /\ result = <<0, 0, 0>>

\* the two are alike but for the location
DifferInLocationOnly(a, b) ==
    /\ a.summary = b.summary
    /\ a.start = b.start
    /\ a.end = b.end
    /\ a.description = b.description
    /\ a.location # b.location

\* C12: a new event with the key of a calendar event from which it differs
\* only in the location is queued as changed and gets an update carrying the
\* calendar event's id.
C12_LocationChangeUpdated ==
    (/\ Finished
     /\ OneAndOne
     /\ get_event_key(given[1]) = get_event_key(listed[1].ev)
     /\ DifferInLocationOnly(given[1], listed[1].ev))
        => /\ events_to_change = <<given[1]>>
           /\ UpdateCallsFor(1, given[1]) # {}
           /\ get_event_key(given[1]) \notin events_to_keep

AllDay(event) == event.start.kind = "date" /\ event.end.kind = "date"

Timed(event) == event.start.kind = "dateTime" /\ event.end.kind = "dateTime"

\* one is the all-day form and the other the timed form of one activity on
\* one day
FlipPair(a, b) ==
    /\ a.summary = b.summary
    /\ DatePortion(a.start) = DatePortion(b.start)
    /\ \/ AllDay(a) /\ Timed(b)
       \/ Timed(a) /\ AllDay(b)

\* C13: a calendar event and a validated new event that are the all-day and
\* the timed form of one activity on one day have different keys; when no
\* new event has the calendar event's key and no calendar event the new
\* event's key, the pass issues a delete for the calendar event and an insert
\* of the new event, and no update of the calendar event with the new event.
C13_FlipDeletesAndInserts ==
    Finished =>
        \A id \in LiveIds(listed) : \A i \in Validated :
            LET old == listed[id].ev
                new == newEvents[i]
            IN  FlipPair(old, new)
                => /\ get_event_key(old) # get_event_key(new)
                   /\ UpdateCallsFor(id, new) = {}
                   /\ (/\ \A j \in 1..Len(newEvents) :
                             get_event_key(newEvents[j]) # get_event_key(old)
                       /\ get_event_key(new) \notin ListedKeys)
                         => /\ DeleteCallsFor(id) # {}
                            /\ InsertCallsFor(new) # {}

\* a description as the claim normalises it: offsets removed, then trimmed;
\* a missing description is the empty string
NormalDescription(event) ==
    IF event.description.tag = "missing" THEN <<>>
    ELSE Strip(RemoveOffsets(event.description.text))

\* a dateTime's offset suffix, dropped when it is a [+-]HH:MM offset
SuffixKept(ts) == IF ts.off \in OffsetTokens THEN "" ELSE ts.off

\* a start or end matches the other side's
SidesMatch(a, b) ==
    CASE a.kind = "date" /\ b.kind = "date" -> a.t = b.t
      [] a.kind = "dateTime" /\ b.kind = "dateTime" ->
            a.t = b.t /\ SuffixKept(a) = SuffixKept(b)
      [] a.kind = "date" /\ b.kind = "dateTime" -> a.t = b.t \div 24
      [] a.kind = "dateTime" /\ b.kind = "date" -> a.t \div 24 = b.t

\* C14: events_are_equal returns true exactly when the trimmed summaries are
\* equal, the starts match, the ends match and the normalised descriptions
\* are equal; two dates match as strings, two dateTimes as timestamps without
\* the trailing offset, a date and a dateTime on the date portion.
C14_EqualExactlyWhenAllMatch ==
    eq_result # "unset"
        => (eq_result = "true"
              <=> /\ Strip(event1.summary) = Strip(event2.summary)
                  /\ SidesMatch(event1.start, event2.start)
                  /\ SidesMatch(event1.end, event2.end)
                  /\ NormalDescription(event1) = NormalDescription(event2))

\* a comparison found equal across a date and a dateTime start, summaries
\* that differ in surrounding blanks and descriptions that differ in an offset
C14_Witness ==
    /\ eq_result = "true"
    /\ event1.start.kind = "date"
    /\ event2.start.kind = "dateTime"
    /\ event1.summary # event2.summary
    /\ event1.description.tag = "str"
    /\ event2.description.tag = "str"
    /\ event1.description # event2.description

\* the data rows the loop has visited
Visited == 1..Len(row_log)

\* the row has a cell under each required column and none of them is empty
Readable(row) ==
    /\ row.n >= Max3(columns.date_idx, columns.event_idx, columns.location_idx)
    /\ row.date # <<>>
    /\ row.event # ""
    /\ row.location # ""

\* the date cell is a range 'M/D-D/YYYY' of two dates of the calendar
IsDayRange(cell) ==
    LET s == StripCell(cell)
    IN  /\ s # <<>>
        /\ Head(s).form = "M/D-D/YYYY"
        /\ ValidDate(Head(s).y, Head(s).m, Head(s).d)
        /\ ValidDate(Head(s).y, Head(s).m, Head(s).d2)

\* the days such a range counts, both ends included
InclusiveDays(cell) == Head(StripCell(cell)).d2 - Head(StripCell(cell)).d + 1

\* C15: a row whose date cell is a range of more than 7 days, both ends
\* included, is rejected by parse_date and produces no event.
C15_LongRangeRejected ==
    \A i \in Visited :
        LET row == sheet.rows[i]
        IN  (Readable(row) /\ IsDayRange(row.date) /\ InclusiveDays(row.date) > 7)
            => /\ ~row_log[i].parsed.ok
               /\ row_log[i].outcome # "event"

\* C16: every event parse_sports_events has built has its end date not
\* before its start date, and a row whose range ends before it starts
\* produces no event or an event whose last day is not before its first.
C16_EndNotBeforeStart ==
    /\ \A k \in 1..Len(sheet_events) :
          sheet_events[k].end.t >= sheet_events[k].start.t
    /\ \A i \in Visited :
          LET row == sheet.rows[i]
          IN  (Readable(row) /\ IsDayRange(row.date) /\ InclusiveDays(row.date) < 1)
              => \/ row_log[i].outcome # "event"
                 \/ row_log[i].ev.end.t > row_log[i].ev.start.t

\* the last day of a parsed range, both ends included
LastDay(parsed) == IF parsed.end = NoDate THEN parsed.start ELSE parsed.end

\* C17: an event built from a row has the first day of the parsed range as
\* start.date and the day after its last day as end.date; for a single date
\* that is the date and the day after it.
C17_EndIsDayAfterLast ==
    \A i \in Visited :
        row_log[i].outcome = "event"
            => LET parsed == row_log[i].parsed
                   ev == row_log[i].ev
               IN  /\ ev.start = Date(Ordinal(parsed.start))
                   /\ ev.end = Date(Ordinal(LastDay(parsed)) + 1)
                   /\ parsed.end = NoDate
                         => ev.end.t = ev.start.t + 1

\* a sheet read to its end with an event for a range that ends on the last
\* day of a year and an event for a single date
C17_Witness ==
    /\ ppc = "returned"
    /\ \E i, j \in Visited :
          /\ row_log[i].outcome = "event"
          /\ row_log[i].parsed.end = YMD(2025, 12, 31)
          /\ row_log[i].ev.end = Date(Ordinal(YMD(2026, 1, 1)))
          /\ row_log[j].outcome = "event"
          /\ row_log[j].parsed.end = NoDate

\* the date cell is one range with a month on both sides
IsMonthRange(cell) ==
    /\ Len(cell) = 1
    /\ cell[1].form \in {"M/D-M/D", "M/D-M/D/YYYY", "M/D/YYYY-M/D/YYYY"}

\* C18: parse_date maps a range with a month on both sides to a start on the
\* first month and day and an end on the second month and day, the end in
\* the year after the start's when its month is the lesser.
C18_MonthRangeParsed ==
    \A i \in Visited :
        LET row == sheet.rows[i]
            parsed == row_log[i].parsed
        IN  (Readable(row) /\ IsMonthRange(row.date))
            => /\ parsed.ok
               /\ parsed.start.m = row.date[1].m
               /\ parsed.start.d = row.date[1].d
               /\ parsed.end.m = row.date[1].m2
               /\ parsed.end.d = row.date[1].d2
               /\ row.date[1].m2 < row.date[1].m
                     => parsed.end.y = parsed.start.y + 1

\* C19: parse_date raises for every date cell that contains 'week of' or
\* ' or ' in any letter case, and the row produces no event.
C19_AmbiguousRejected ==
    \A i \in Visited :
        LET row == sheet.rows[i]
        IN  (Readable(row) /\ (ContainsWeekOf(row.date) \/ ContainsOr(row.date)))
            => /\ ~row_log[i].parsed.ok
               /\ row_log[i].outcome # "event"

RECURSIVE EventsOf(_, _)
\* the events of the first n entries of a row log, in order
EventsOf(rl, n) ==
    IF n = 0 THEN <<>>
    ELSE IF rl[n].outcome = "event" THEN Append(EventsOf(rl, n - 1), rl[n].ev)
    ELSE EventsOf(rl, n - 1)

\* C20: of a sheet whose columns were found, parse_sports_events returns, in
\* row order, an event for each data row that has a cell under each required
\* column, none of them empty, and a date cell that parses, and for no other
\* row.
C20_RowsInOrder ==
    (ppc = "returned" /\ RequiredColumnsFound(columns))
        => /\ Len(row_log) = Len(sheet.rows)
           /\ \A i \in Visited :
                 row_log[i].outcome = "event"
                    <=> (Readable(sheet.rows[i]) /\ parse_date(sheet.rows[i].date).ok)
           /\ sheet_events = EventsOf(row_log, Len(row_log))

\* the time cell the loop reads for a row
TimeStrOf(row) ==
    IF columns.time_idx # NoCol /\ row.n >= columns.time_idx THEN row.time
    ELSE EmptyTime

\* the time cell is filled, is no placeholder, and gives no time of the day
Unparseable(time_str) ==
    /\ time_str.text \notin {"", "TBD"}
    /\ \/ ~time_str.found
       \/ ~extract_first_time(time_str).ok

\* C21: a row with a date cell that parses and filled activity and location
\* cells produces an event whatever its time cell holds, and a time cell that
\* is filled, no placeholder and not parseable gives the event a timed start
\* (the default 15:30).
C21_BadTimeKeepsRow ==
    \A i \in Visited :
        LET row == sheet.rows[i]
        IN  (Readable(row) /\ parse_date(row.date).ok)
            => /\ row_log[i].outcome = "event"
               /\ Unparseable(TimeStrOf(row))
                     => row_log[i].ev.start.kind = "dateTime"

\* C22: an event built from a row whose time cell yields a time is timed,
\* starts on the row's date at that hour and ends two hours later; an event
\* built from a row whose time cell yields no time is all-day.
C22_TimedOrAllDay ==
    \A i \in Visited :
        row_log[i].outcome = "event"
            => LET parsed_time == extract_first_time(TimeStrOf(sheet.rows[i]))
                   ev == row_log[i].ev
               IN  IF parsed_time.none THEN AllDay(ev)
                   ELSE /\ Timed(ev)
                        /\ ev.start.t = Hour(Ordinal(row_log[i].parsed.start),
                                             parsed_time.hour)
                        /\ ev.end.t = ev.start.t + 2

\* extract_first_time returned the time hour:minute
Resolved(r, hour, minute) ==
    r.ok /\ ~r.none /\ r.hour = hour /\ r.minute = minute

\* C23: for a first time h[:m] with minutes of the clock, extract_first_time
\* gives hour h + 12 for 1 <= h <= 11 without AM/PM, 12 for h = 12 without
\* AM/PM, no time for h >= 13 without AM/PM, h + 12 for PM and h < 12, 0 for
\* AM and h = 12, and h for AM and h < 12.
C23_TimeInference ==
    (time_result # <<>> /\ time_arg.found /\ time_arg.minute \in 0..59)
        => LET r    == time_result[1]
               h    == time_arg.hour
               m    == time_arg.minute
               mark == Lower(time_arg.ampm)
           IN  /\ (mark = "" /\ h \in 1..11) => Resolved(r, h + 12, m)
               /\ (mark = "" /\ h = 12) => Resolved(r, 12, m)
               /\ (mark = "" /\ h >= 13) => (r.ok /\ r.none)
               /\ (mark = "pm" /\ h < 12) => Resolved(r, h + 12, m)
               /\ (mark = "am" /\ h = 12) => Resolved(r, 0, m)
               /\ (mark = "am" /\ h < 12) => Resolved(r, h, m)

\* the calls of one kind that the store accepted in the current pass
Accepted(op) == {i \in CallsOf(op) : log[i].ok}

\* C27: the triple update_calendar returns is the number of delete calls,
\* of insert calls and of update calls that the store accepted in that pass
C27_CountsAreAcceptedCalls ==
    pc = "done" =>
        result = <<Cardinality(Accepted("delete")),
                   Cardinality(Accepted("insert")),
                   Cardinality(Accepted("update"))>>

\* a calendar with at most one live event under each key
OnePerKey(s) ==
    \A i, j \in {n \in LiveIds(s) : HasStartEnd(s[n].ev)} :
        get_event_key(s[i].ev) = get_event_key(s[j].ev) => i = j

\* C28: a pass that starts from a calendar with at most one event per key
\* and in which no store call fails leaves at most one event per key
C28_KeysStayUnique ==
    (/\ pc = "done"
     /\ OnePerKey(listed)
     /\ \A i \in 1..Len(log) : log[i].ok)
        => OnePerKey(store)

\* C29: events_are_equal is reflexive, symmetric and transitive on events
\* that have a start and an end
C29_EquivalenceRelation ==
    rel # <<>> =>
        /\ rel[1].aa
        /\ rel[1].ab <=> rel[1].ba
        /\ (rel[1].ab /\ rel[1].bc) => rel[1].ac

\* a is timed where b is date-only and c is timed
DateBetweenTimes(a, b, c) ==
    a.kind = "dateTime" /\ b.kind = "date" /\ c.kind = "dateTime"

\* C29 as the code has it: events_are_equal is reflexive and symmetric, and
\* transitive from a to c through b unless b's start, or b's end, is
\* date-only where those of a and c are both timed
C29_EquivalenceButThroughDate ==
    rel # <<>> =>
        /\ rel[1].aa
        /\ rel[1].ab <=> rel[1].ba
        /\ (/\ rel[1].ab
            /\ rel[1].bc
            /\ ~DateBetweenTimes(event1.start, event2.start, event3.start)
            /\ ~DateBetweenTimes(event1.end, event2.end, event3.end))
              => rel[1].ac

\* three different events, date-only and timed, found equal to one another
C29_Witness ==
    /\ rel # <<>>
    /\ rel[1].ab /\ rel[1].bc /\ rel[1].ac
    /\ event1 # event2 /\ event2 # event3 /\ event1 # event3
    /\ event1.start.kind = "date"
    /\ event2.start.kind = "dateTime"
    /\ event3.start.kind = "date"

\* the last response read carried no nextPageToken
LastPageRead == events_result # <<>> /\ events_result[1].nextPageToken = NoToken

\* every event served has, under its key, an event with that key
AllIndexed ==
    \A e \in served :
        /\ get_event_key(e) \in DOMAIN existing
        /\ get_event_key(existing[get_event_key(e)]) = get_event_key(e)

\* C25: every request of get_existing_events passes the nextPageToken of the
\* response before it (None at first); it asks again exactly while the
\* response read carries a token; it returns only after a response without
\* one, with every event of every page indexed under its key; and once the
\* store has answered without a token it returns
C25_Pagination ==
    /\ [](gpc = "merge" => asked = last_next)
    /\ []((gpc = "request" /\ events_result # <<>>) => ~LastPageRead)
    /\ [](gpc = "returned" => (LastPageRead /\ AllIndexed))
    /\ (LastPageRead ~> gpc = "returned")

\* the function has returned after a second request, having read two events
\* with one key
C25_Witness ==
    /\ gpc = "returned"
    /\ asked # NoToken
    /\ \E a, b \in served : a # b /\ get_event_key(a) = get_event_key(b)

\* the header row and the required columns of a sheet are found
Usable(sh) == IsHeaderRow(sh.headers) /\ RequiredColumnsFound(ColumnsOf(sh.headers))

\* fetching the sheet, parsing it as a table, or reconciling it fails
StageFailed(sh) ==
    \/ sh.values = "raises"
    \/ sh.values = "rows" /\ ~Usable(sh)
    \/ sh.values = "rows" /\ ParsedEvents(sh) # <<>> /\ sh.store_does # "answers"

\* the results recorded so far are those of the first sheets of the list,
\* one each, in list order
OnceInOrder ==
    /\ Len(sheet_results) = sheet_i - 1
    /\ Len(sheet_results) <= Len(available_sheets)
    /\ \A i \in 1..Len(sheet_results) : sheet_results[i].sheet = i

\* C24: in a multi-sheet run every sheet of the list is processed once and
\* in list order, whatever happened to the sheets before it, and a sheet
\* whose fetch, parse or reconciliation failed has a failed result
C24_EverySheetAttempted ==
    /\ OnceInOrder
    /\ rpc = "done" => Len(sheet_results) = Len(available_sheets)
    /\ \A i \in 1..Len(sheet_results) :
          StageFailed(available_sheets[i]) => ~sheet_results[i].result.success

\* the sheet yields an event and every store call answers
SheetApplies(sh) ==
    sh.values = "rows" /\ ParsedEvents(sh) # <<>> /\ sh.store_does = "answers"

\* the result carries what update_calendar queues for the sheet over some
\* reading of its calendar
CarriesPlan(res, sh) ==
    \E f \in get_existing_events(sh.calendar) :
        LET plan == Plan(ParsedEvents(sh), sh.calendar, f)
        IN  /\ res.events_created = Len(plan.inserted)
            /\ res.events_updated = Len(plan.updated)
            /\ res.events_deleted = Cardinality(plan.deleted)
            /\ res.details = plan

\* C26: in the automated sync a sheet that yields an event and whose store
\* calls succeed gets success=True with update_calendar's counts and lists,
\* and a sheet gets success=False only when a stage failed
C26_SheetResult ==
    run = "main" =>
        \A i \in 1..Len(sheet_results) :
            LET sh  == available_sheets[i]
                res == sheet_results[i].result
            IN  /\ SheetApplies(sh) => (res.success /\ CarriesPlan(res, sh))
                /\ ~res.success => (StageFailed(sh) \/ sh.values = "none")

\* the preview reported nothing to add and nothing to delete
PreviewEmpty == changes[1].to_add = <<>> /\ changes[1].to_delete = {}

\* the event the preview listed at position n of to_add was inserted or
\* updated: a call carries it, as update_calendar left it after fixing
AddedAsPreviewed(n) ==
    \E i \in 1..Len(given) :
        /\ given[i] = changes[1].to_add[n]
        /\ \E j \in CallsOf("insert") \cup CallsOf("update") :
               log[j].body = newEvents[i]

\* C30: for the same events and the same calendar, the preview reports
\* nothing to add and nothing to delete exactly when update_calendar issues
\* no call; every event in to_delete gets a delete call and every event in
\* to_add an insert or update call
C30_PreviewAgreesWithApply ==
    (pc = "done" /\ changes # <<>>) =>
        /\ PreviewEmpty <=> log = <<>>
        /\ \A existing_event \in changes[1].to_delete :
              DeleteCallsFor(existing_event.id) # {}
        /\ \A n \in 1..Len(changes[1].to_add) : AddedAsPreviewed(n)

====
